---- MODULE Spec2Model ----
(***************************************************************************)
(* A model of youtube.py: the fetch -> queue -> process pipeline of        *)
(* YoutubeDownloader, its processed archive (in-memory set and backing     *)
(* file), the progress hook and the thread pool of process_single_video.   *)
(* Paths, archive keys and identifiers are strings; the string functions   *)
(* of the source (splitext, basename, endswith, strip, startswith, in)     *)
(* are computed character by character.                                    *)
(***************************************************************************)
EXTENDS Integers, Sequences, FiniteSets, TLC

VARIABLES
    args,                \* self.args (the parsed command line)
    files_to_process,    \* self.files_to_process
    tqdm_progress_bars,  \* self.tqdm_progress_bars: file_id -> pbar.n
    processed_archive,   \* self.processed_archive (in-memory set)
    archive_file,        \* lines of the file args.processed_archive
    startup_file,        \* the lines the archive file held when the run began
    event,               \* the event the fetch engine is delivering to the hook
    fs,                  \* the file system: path -> "absent" | "empty" | "full"
    mainpc,              \* position of main()
    fetch_error,         \* "Fatal download error" was logged
    futures,             \* one record per executor.submit, in queue order
    work_queue,          \* the executor's FIFO of submitted, unclaimed futures
    collected,           \* futures already yielded by as_completed
    pbar_n,              \* the aggregate tqdm counter of the processing batch
    audio_i              \* loop position of process_audio_files_concurrently

vars == <<args, files_to_process, tqdm_progress_bars, processed_archive,
          archive_file, startup_file, event, fs, mainpc, fetch_error,
          futures, work_queue, collected, pbar_n, audio_i>>

---------------------------------------------------------------------------
\* Bounds of the model.

\* Longest task queue (completion events that enqueue).
MaxTasks == 2

\* Largest --max-workers tried.
MaxWorkers == 2

---------------------------------------------------------------------------
\* Strings.

Char(s, i) == SubSeq(s, i, i)

\* str.endswith
EndsWith(s, suf) ==
    /\ Len(suf) <= Len(s)
    /\ SubSeq(s, Len(s) - Len(suf) + 1, Len(s)) = suf

\* str.startswith
StartsWith(s, pre) ==
    /\ Len(pre) <= Len(s)
    /\ SubSeq(s, 1, Len(pre)) = pre

\* sub in s
Contains(s, sub) ==
    \E i \in 1..(Len(s) - Len(sub) + 1) : SubSeq(s, i, i + Len(sub) - 1) = sub

\* str.rfind of one character, 1-based; 0 when it does not occur.
RFind(s, c) ==
    LET hits == {i \in 1..Len(s) : Char(s, i) = c}
    IN  IF hits = {} THEN 0 ELSE CHOOSE i \in hits : \A j \in hits : j <= i

Whitespace == {" ", "\t", "\n", "\r"}

\* str.strip(): leading and trailing whitespace removed.
Strip(s) ==
    LET keep == {i \in 1..Len(s) : Char(s, i) \notin Whitespace}
    IN  IF keep = {} THEN ""
        ELSE LET lo == CHOOSE i \in keep : \A j \in keep : i <= j
                 hi == CHOOSE i \in keep : \A j \in keep : j <= i
             IN  SubSeq(s, lo, hi)

\* os.path.basename
Basename(p) == SubSeq(p, RFind(p, "/") + 1, Len(p))

\* os.path.splitext: the extension starts at the last dot of the last path
\* component, unless only dots precede it in that component.
Splitext(p) ==
    LET sepIndex == RFind(p, "/")
        dotIndex == RFind(p, ".")
    IN  IF /\ dotIndex > sepIndex
           /\ \E k \in (sepIndex + 1)..(dotIndex - 1) : Char(p, k) # "."
        THEN <<SubSeq(p, 1, dotIndex - 1), SubSeq(p, dotIndex, Len(p))>>
        ELSE <<p, "">>

InvalidChars == {"\\", "/", "*", "?", ":", "\"", "<", ">", "|"}

RECURSIVE sanitize_filename(_)
sanitize_filename(name) ==
    IF name = "" THEN ""
    ELSE (IF Char(name, 1) \in InvalidChars THEN "_" ELSE Char(name, 1))
         \o sanitize_filename(SubSeq(name, 2, Len(name)))

---------------------------------------------------------------------------
\* Configuration and inputs.

\* --filename-suffix as given on the command line.
RawSuffix == "P"

\* Destination paths the fetch engine reports.
SrcPaths == {"a.mp4", "b.mkv", "b_P.mp4"}

\* Identifiers given on the command line.
Identifiers == {"https://y/c", "xyz"}

\* Contents of the archive file left by earlier runs.
StartupFiles == {<< >>, <<"b_P.mp4">>}

\* Two destination paths of the fetch that differ only in the extension.
CollidePaths == {"a.mp4", "a.mkv"}

\* The output path of process_single_video for a source path.
OutputFile(filename, suffix) == Splitext(filename)[1] \o "_" \o suffix \o ".mp4"

\* The new path of process_audio_files_concurrently for a source path.
NewFilepath(filepath, suffix) ==
    Splitext(filepath)[1] \o "_" \o suffix \o Splitext(filepath)[2]

Suffix == sanitize_filename(RawSuffix)

AllPaths ==
    LET sources == SrcPaths \cup CollidePaths
    IN  sources \cup {OutputFile(p, Suffix) : p \in sources}
                \cup {NewFilepath(p, Suffix) : p \in sources}

---------------------------------------------------------------------------
\* Archive store.

\* _load_processed_archive: the stripped, non-empty lines of the file.
LoadArchive(lines) ==
    {Strip(lines[i]) : i \in {j \in 1..Len(lines) : Strip(lines[j]) # ""}}

\* f.write(filename + "\n") in append mode: one more line.  The line reaches
\* the file in one write at its end (O_APPEND), whole.
AppendLine(lines, filename) == Append(lines, filename)

---------------------------------------------------------------------------
\* Identifier resolver.

Exit == <<"sys.exit">>

\* Mutant: the handle rule builds the "videos" listing twice.
GetValidUrlVideosTwice(identifier) ==
    IF Contains(identifier, "playlist?list=") \/ Contains(identifier, "watch?v=")
    THEN <<identifier>>
    ELSE IF StartsWith(identifier, "@")
    THEN <<"https://www.youtube.com/" \o identifier \o "/videos",
           "https://www.youtube.com/" \o identifier \o "/videos">>
    ELSE IF StartsWith(identifier, "UC")
    THEN <<"https://www.youtube.com/channel/" \o identifier \o "/videos",
           "https://www.youtube.com/channel/" \o identifier \o "/shorts">>
    ELSE IF StartsWith(identifier, "https://")
    THEN <<identifier>>
    ELSE Exit

_get_valid_url(identifier) ==
    IF Contains(identifier, "playlist?list=") \/ Contains(identifier, "watch?v=")
    THEN <<identifier>>
    ELSE IF StartsWith(identifier, "@")
    THEN <<"https://www.youtube.com/" \o identifier \o "/videos",
           "https://www.youtube.com/" \o identifier \o "/shorts">>
    ELSE IF StartsWith(identifier, "UC")
    THEN <<"https://www.youtube.com/channel/" \o identifier \o "/videos",
           "https://www.youtube.com/channel/" \o identifier \o "/shorts">>
    ELSE IF StartsWith(identifier, "https://")
    THEN <<identifier>>
    ELSE Exit

\* No event is being delivered.
NoEvent == [status |-> "none", id |-> "", filename |-> ""]

\* The in-memory set as __init__ loaded it.
StartupArchive == LoadArchive(startup_file)

---------------------------------------------------------------------------
\* Construction: YoutubeDownloader.__init__ after parse_args.

Init ==
    /\ \E ao \in BOOLEAN, sk \in BOOLEAN, ko \in BOOLEAN,
          mw \in 1..MaxWorkers, id \in Identifiers :
          args = [audio_only |-> ao, skip_processing |-> sk,
                  keep_original |-> ko, max_workers |-> mw,
                  filename_suffix |-> sanitize_filename(RawSuffix),
                  url_or_identifier |-> id]
    /\ archive_file \in StartupFiles
    /\ processed_archive = LoadArchive(archive_file)
    /\ startup_file = archive_file
    /\ event = NoEvent
    /\ files_to_process = << >>
    /\ tqdm_progress_bars = << >>
    /\ fs = [p \in AllPaths |-> "absent"]
    /\ mainpc = "download_content"
    /\ fetch_error = FALSE
    /\ futures = << >>
    /\ work_queue = << >>
    /\ collected = {}
    /\ pbar_n = 0
    /\ audio_i = 1

---------------------------------------------------------------------------
\* Run controller and fetch stage.

\* main, lines 283-289: where the run goes when download_content returns.
AfterDownload ==
    IF args.skip_processing THEN "done"
    ELSE IF args.audio_only THEN "process_audio"
    ELSE "process_videos"

\* Mutant: the run goes on to the fetch although the resolver exited.
DownloadContentNoExit ==
    /\ mainpc = "download_content"
    /\ mainpc' = "fetch"
    /\ UNCHANGED <<args, files_to_process, tqdm_progress_bars,
                   processed_archive, archive_file, startup_file, event, fs,
                   fetch_error, futures, work_queue, collected, pbar_n,
                   audio_i>>

\* download_content up to the call of the fetch engine: the identifier is
\* resolved first, and sys.exit(1) ends the run.
DownloadContent ==
    /\ mainpc = "download_content"
    /\ mainpc' = IF _get_valid_url(args.url_or_identifier) = Exit
                 THEN "exited" ELSE "fetch"
    /\ UNCHANGED <<args, files_to_process, tqdm_progress_bars,
                   processed_archive, archive_file, startup_file, event, fs,
                   fetch_error, futures, work_queue, collected, pbar_n,
                   audio_i>>

\* Engine IDs of info_dict; "" is a missing one.
EngineIds == {"", "x"}

\* The 'finished' events the engine may deliver: d.get('filename') is a
\* destination path or missing ("").
FinishedEvents ==
    [status : {"finished"}, id : EngineIds, filename : SrcPaths \cup {""}]

\* The fetch engine finishes an item: it has written the destination file,
\* and calls the progress hook with the event.
EngineFinishes(d) ==
    /\ mainpc = "fetch"
    /\ event = NoEvent
    /\ Len(files_to_process) < MaxTasks
    /\ event' = d
    /\ fs' = IF d.filename = "" THEN fs ELSE [fs EXCEPT ![d.filename] = "full"]
    /\ UNCHANGED <<args, files_to_process, tqdm_progress_bars,
                   processed_archive, archive_file, startup_file, mainpc,
                   fetch_error, futures, work_queue, collected, pbar_n,
                   audio_i>>

\* The key of an event: info_dict.id, or else the basename of filename.
FileId(d) == IF d.id # "" THEN d.id ELSE Basename(d.filename)

\* The registry without one key (close and del).
DelBar(bars, file_id) == [k \in DOMAIN bars \ {file_id} |-> bars[k]]

\* Mutant: the membership test of line 160 left out.
QueueAfterFinishedNoArchiveTest(queue, d, archive, skip) ==
    IF FileId(d) = "" \/ d.filename = "" THEN queue
    ELSE IF ~skip THEN Append(queue, d.filename)
    ELSE queue

\* The queue after a 'finished' event.
QueueAfterFinished(queue, d, archive, skip) ==
    IF FileId(d) = "" \/ d.filename = "" THEN queue
    ELSE IF ~skip /\ d.filename \notin archive
    THEN Append(queue, d.filename)
    ELSE queue

\* _progress_hook, status 'finished' (lines 134-135 and 149-163).
HookFinished ==
    /\ event.status = "finished"
    /\ tqdm_progress_bars' =
          IF FileId(event) # "" /\ FileId(event) \in DOMAIN tqdm_progress_bars
          THEN DelBar(tqdm_progress_bars, FileId(event))
          ELSE tqdm_progress_bars
    /\ files_to_process' =
          QueueAfterFinished(files_to_process, event, processed_archive,
                             args.skip_processing)
    /\ event' = NoEvent
    /\ UNCHANGED <<args, processed_archive, archive_file, startup_file, fs,
                   mainpc, fetch_error, futures, work_queue, collected,
                   pbar_n, audio_i>>

\* ydl.download(target_urls) returns.
FetchReturn ==
    /\ mainpc = "fetch"
    /\ event = NoEvent
    /\ mainpc' = AfterDownload
    /\ UNCHANGED <<args, files_to_process, tqdm_progress_bars,
                   processed_archive, archive_file, startup_file, event, fs,
                   fetch_error, futures, work_queue, collected, pbar_n,
                   audio_i>>

\* Mutant: the exception of the fetch call is not caught and ends the run.
AfterFetchErrorUncaught == "exited"

\* Where the run goes when the fetch call raises: except Exception logs it.
AfterFetchError == AfterDownload

\* ydl.download(target_urls), or the engine's construction, raises.
FetchRaise ==
    /\ mainpc = "fetch"
    /\ event = NoEvent
    /\ fetch_error' = TRUE
    /\ mainpc' = AfterFetchError
    /\ UNCHANGED <<args, files_to_process, tqdm_progress_bars,
                   processed_archive, archive_file, startup_file, event, fs,
                   futures, work_queue, collected, pbar_n, audio_i>>

---------------------------------------------------------------------------
\* Video mode: process_videos_concurrently and process_single_video.

NewFuture(filename) ==
    [filename |-> filename, pc |-> "queued", claims |-> 0, rc |-> "none",
     seen |-> "none", removed |-> FALSE, wrote |-> "no",
     result |-> "pending"]

\* process_videos_concurrently, lines 206-210.
ProcessVideos ==
    /\ mainpc = "process_videos"
    /\ mainpc' = IF files_to_process = << >> THEN "done" ELSE "submit"
    /\ UNCHANGED <<args, files_to_process, tqdm_progress_bars,
                   processed_archive, archive_file, startup_file, event, fs,
                   fetch_error, futures, work_queue, collected, pbar_n,
                   audio_i>>

\* One executor.submit of the dict comprehension of line 214.
Submit ==
    /\ mainpc = "submit"
    /\ LET i == Len(futures) + 1
       IN  /\ futures' = Append(futures, NewFuture(files_to_process[i]))
           /\ work_queue' = Append(work_queue, i)
           /\ mainpc' = IF i = Len(files_to_process)
                        THEN "as_completed" ELSE "submit"
    /\ UNCHANGED <<args, files_to_process, tqdm_progress_bars,
                   processed_archive, archive_file, startup_file, event, fs,
                   fetch_error, collected, pbar_n, audio_i>>

\* The futures a worker thread is running.
Running == {i \in DOMAIN futures : futures[i].pc \notin {"queued", "done"}}

\* Mutant: the pool starts a thread for every work item.
IdleWorkerAlways == TRUE

\* A worker thread of the pool of max_workers threads is idle.
IdleWorker == Cardinality(Running) < args.max_workers

\* Mutant: the work item is read but left in the queue.
QueueAfterClaimPeek(queue) == queue

\* The work queue after a worker has taken its head.
QueueAfterClaim(queue) == Tail(queue)

\* Mutant: the idempotence guard of lines 223-226 left out.
StartedNoGuard(f) ==
    IF args.audio_only
    THEN [f EXCEPT !.claims = @ + 1, !.pc = "done", !.result = "none"]
    ELSE [f EXCEPT !.claims = @ + 1, !.pc = "ffmpeg"]

\* The future as process_single_video leaves it at its first two returns
\* (lines 221-226), or ready for the transcoder.
Started(f) ==
    IF args.audio_only
    THEN [f EXCEPT !.claims = @ + 1, !.pc = "done", !.result = "none"]
    ELSE IF EndsWith(Splitext(f.filename)[1], args.filename_suffix)
    THEN [f EXCEPT !.claims = @ + 1, !.pc = "done", !.result = "skipped"]
    ELSE [f EXCEPT !.claims = @ + 1, !.pc = "ffmpeg"]

\* An idle worker thread takes the next work item and starts it.
Claim ==
    /\ IdleWorker
    /\ work_queue # << >>
    /\ LET i == Head(work_queue)
       IN  futures' = [futures EXCEPT ![i] = Started(futures[i])]
    /\ work_queue' = QueueAfterClaim(work_queue)
    /\ UNCHANGED <<args, files_to_process, tqdm_progress_bars,
                   processed_archive, archive_file, startup_file, event, fs,
                   mainpc, fetch_error, collected, pbar_n, audio_i>>

\* What the transcoder may do to its output file.
FfmpegEffects == {"unchanged", "empty", "full"}

\* subprocess.run(cmd, check=True): exit status 0, a non-zero status
\* (CalledProcessError), or the call itself fails ("oserror", any other
\* exception).  A transcoder whose input is missing exits non-zero and
\* writes nothing.
RunFfmpeg(i) ==
    /\ i \in DOMAIN futures
    /\ futures[i].pc = "ffmpeg"
    /\ LET f == futures[i]
           out == OutputFile(f.filename, args.filename_suffix)
       IN \E rc \in {"0", "1", "oserror"}, eff \in FfmpegEffects :
            /\ rc = "oserror" => eff = "unchanged"
            /\ fs[f.filename] = "absent" => rc # "0" /\ eff = "unchanged"
            /\ fs' = IF eff = "unchanged" THEN fs ELSE [fs EXCEPT ![out] = eff]
            /\ futures' = [futures EXCEPT ![i] =
                  IF rc = "0" THEN [f EXCEPT !.rc = rc, !.pc = "check"]
                  ELSE [f EXCEPT !.rc = rc, !.pc = "done", !.result =
                          IF rc = "1" THEN "ffmpeg_error" ELSE "unexpected"]]
    /\ UNCHANGED <<args, files_to_process, tqdm_progress_bars,
                   processed_archive, archive_file, startup_file, event, mainpc,
                   fetch_error, work_queue, collected, pbar_n, audio_i>>

\* Mutant: the size test of line 238 left out.
OutputOkExistsOnly(out) == fs[out] # "absent"

\* Line 238: the output exists and is not empty.
OutputOk(out) == fs[out] = "full"

\* Lines 238-244: the branch taken after the transcoder returned.
CheckOutput(i) ==
    /\ i \in DOMAIN futures
    /\ futures[i].pc = "check"
    /\ LET f == futures[i]
           out == OutputFile(f.filename, args.filename_suffix)
       IN futures' = [futures EXCEPT ![i] =
             IF OutputOk(out)
             THEN [f EXCEPT !.seen = fs[out], !.pc =
                         IF args.keep_original THEN "write" ELSE "remove"]
             ELSE [f EXCEPT !.seen = fs[out], !.pc = "done",
                            !.result = "failed"]]
    /\ UNCHANGED <<args, files_to_process, tqdm_progress_bars,
                   processed_archive, archive_file, startup_file, event, fs,
                   mainpc, fetch_error, work_queue, collected, pbar_n,
                   audio_i>>

\* Line 240: os.remove(filename); it raises when the file is gone, and may
\* raise for any other reason of the operating system.
RemoveSource(i) ==
    /\ i \in DOMAIN futures
    /\ futures[i].pc = "remove"
    /\ LET f == futures[i]
       IN \E ok \in BOOLEAN :
            /\ fs[f.filename] = "absent" => ~ok
            /\ fs' = IF ok THEN [fs EXCEPT ![f.filename] = "absent"] ELSE fs
            /\ futures' = [futures EXCEPT ![i] =
                  IF ok THEN [f EXCEPT !.removed = TRUE, !.pc = "write"]
                  ELSE [f EXCEPT !.pc = "done", !.result = "unexpected"]]
    /\ UNCHANGED <<args, files_to_process, tqdm_progress_bars,
                   processed_archive, archive_file, startup_file, event, mainpc,
                   fetch_error, work_queue, collected, pbar_n, audio_i>>

\* Mutant: a failed write is swallowed and the key is added all the same.
AfterWriteErrorSwallowed(f, ok) ==
    [f EXCEPT !.wrote = IF ok THEN "ok" ELSE "failed", !.pc = "add"]

\* Mutant: the error of a failed write leaves process_single_video, and the
\* future never holds a result.
AfterWriteErrorEscapes(f, ok) ==
    IF ok THEN [f EXCEPT !.wrote = "ok", !.pc = "add"]
    ELSE [f EXCEPT !.wrote = "failed", !.pc = "raised"]

\* The future after the write of _save_to_processed_archive (lines 107-108)
\* succeeded or raised.
AfterWrite(f, ok) ==
    IF ok THEN [f EXCEPT !.wrote = "ok", !.pc = "add"]
    ELSE [f EXCEPT !.wrote = "failed", !.pc = "done", !.result = "unexpected"]

\* _save_to_processed_archive, lines 107-108, called from line 241.
SaveWrite(i) ==
    /\ i \in DOMAIN futures
    /\ futures[i].pc = "write"
    /\ LET f == futures[i]
           out == OutputFile(f.filename, args.filename_suffix)
       IN \E ok \in BOOLEAN :
            /\ archive_file' = IF ok THEN AppendLine(archive_file, out)
                               ELSE archive_file
            /\ futures' = [futures EXCEPT ![i] = AfterWrite(f, ok)]
    /\ UNCHANGED <<args, files_to_process, tqdm_progress_bars,
                   processed_archive, startup_file, event, fs, mainpc,
                   fetch_error, work_queue, collected, pbar_n, audio_i>>

\* _save_to_processed_archive, line 109, and the return of line 242.
SaveAdd(i) ==
    /\ i \in DOMAIN futures
    /\ futures[i].pc = "add"
    /\ LET f == futures[i]
           out == OutputFile(f.filename, args.filename_suffix)
       IN /\ processed_archive' = processed_archive \cup {out}
          /\ futures' = [futures EXCEPT ![i] =
                [f EXCEPT !.pc = "done", !.result = "processed"]]
    /\ UNCHANGED <<args, files_to_process, tqdm_progress_bars, archive_file,
                   startup_file, event, fs, mainpc, fetch_error, work_queue,
                   collected, pbar_n, audio_i>>

\* The aggregate counter after one result was taken.
PbarUpdate(n) == n + 1

\* One turn of the as_completed loop, lines 215-218.
Collect(i) ==
    /\ mainpc = "as_completed"
    /\ i \in DOMAIN futures
    /\ futures[i].pc = "done"
    /\ i \notin collected
    /\ collected' = collected \cup {i}
    /\ pbar_n' = PbarUpdate(pbar_n)
    /\ UNCHANGED <<args, files_to_process, tqdm_progress_bars,
                   processed_archive, archive_file, startup_file, event, fs,
                   mainpc, fetch_error, futures, work_queue, audio_i>>

\* as_completed is exhausted, the executor shuts down, main logs the end.
ProcessVideosReturn ==
    /\ mainpc = "as_completed"
    /\ collected = DOMAIN futures
    /\ mainpc' = "done"
    /\ UNCHANGED <<args, files_to_process, tqdm_progress_bars,
                   processed_archive, archive_file, startup_file, event, fs,
                   fetch_error, futures, work_queue, collected, pbar_n,
                   audio_i>>

---------------------------------------------------------------------------
\* Audio mode: process_audio_files_concurrently.

\* Mutant: the archive write is attempted also after a failed rename.
AudioItemSavesAfterFailedRename ==
    /\ mainpc = "process_audio"
    /\ audio_i <= Len(files_to_process)
    /\ LET filepath == files_to_process[audio_i]
           new_filepath == NewFilepath(filepath, args.filename_suffix)
       IN IF EndsWith(Splitext(filepath)[1], args.filename_suffix)
          THEN UNCHANGED <<fs, archive_file, processed_archive>>
          ELSE \E renamed \in BOOLEAN, written \in BOOLEAN :
                 /\ fs[filepath] = "absent" => ~renamed
                 /\ fs' = IF renamed
                          THEN [fs EXCEPT ![new_filepath] = fs[filepath],
                                          ![filepath] = "absent"]
                          ELSE fs
                 /\ archive_file' = IF written
                                    THEN AppendLine(archive_file, new_filepath)
                                    ELSE archive_file
                 /\ processed_archive' =
                       IF written THEN processed_archive \cup {new_filepath}
                       ELSE processed_archive
    /\ audio_i' = audio_i + 1
    /\ pbar_n' = PbarUpdate(pbar_n)
    /\ UNCHANGED <<args, files_to_process, tqdm_progress_bars,
                   startup_file, event, mainpc, fetch_error, futures, work_queue,
                   collected>>

\* One turn of the loop of lines 257-266, with what os.rename and the
\* archive write did.  os.rename raises when the source is gone.
AudioItem ==
    /\ mainpc = "process_audio"
    /\ audio_i <= Len(files_to_process)
    /\ LET filepath == files_to_process[audio_i]
           new_filepath == NewFilepath(filepath, args.filename_suffix)
       IN IF EndsWith(Splitext(filepath)[1], args.filename_suffix)
          THEN UNCHANGED <<fs, archive_file, processed_archive>>
          ELSE \E renamed \in BOOLEAN, written \in BOOLEAN :
                 /\ fs[filepath] = "absent" => ~renamed
                 /\ ~renamed => ~written
                 /\ fs' = IF renamed
                          THEN [fs EXCEPT ![new_filepath] = fs[filepath],
                                          ![filepath] = "absent"]
                          ELSE fs
                 /\ archive_file' = IF written
                                    THEN AppendLine(archive_file, new_filepath)
                                    ELSE archive_file
                 /\ processed_archive' =
                       IF written THEN processed_archive \cup {new_filepath}
                       ELSE processed_archive
    /\ audio_i' = audio_i + 1
    /\ pbar_n' = PbarUpdate(pbar_n)
    /\ UNCHANGED <<args, files_to_process, tqdm_progress_bars,
                   startup_file, event, mainpc, fetch_error, futures, work_queue,
                   collected>>

\* The loop is over (or the queue was empty, line 252): main logs the end.
ProcessAudioReturn ==
    /\ mainpc = "process_audio"
    /\ audio_i > Len(files_to_process)
    /\ mainpc' = "done"
    /\ UNCHANGED <<args, files_to_process, tqdm_progress_bars,
                   processed_archive, archive_file, startup_file, event, fs,
                   fetch_error, futures, work_queue, collected, pbar_n,
                   audio_i>>

---------------------------------------------------------------------------

Next ==
    \/ DownloadContent
    \/ \E d \in FinishedEvents : EngineFinishes(d)
    \/ HookFinished
    \/ FetchReturn
    \/ FetchRaise
    \/ ProcessVideos
    \/ Submit
    \/ Claim
    \/ \E i \in 1..MaxTasks : RunFfmpeg(i)
    \/ \E i \in 1..MaxTasks : CheckOutput(i)
    \/ \E i \in 1..MaxTasks : RemoveSource(i)
    \/ \E i \in 1..MaxTasks : SaveWrite(i)
    \/ \E i \in 1..MaxTasks : SaveAdd(i)
    \/ \E i \in 1..MaxTasks : Collect(i)
    \/ ProcessVideosReturn
    \/ AudioItem
    \/ ProcessAudioReturn

Spec == Init /\ [][Next]_vars

---------------------------------------------------------------------------
\* The archive store on its own: appends and fresh loads over one file.

\* Most lines the archive file holds.
MaxAppends == 4

\* Keys the pipeline appends: the outputs of "a.mp4" and of " b.mp4" (an
\* output template that begins with a space), and an audio rename.
StoreKeys ==
    {OutputFile("a.mp4", Suffix), OutputFile(" b.mp4", Suffix),
     NewFilepath("c.mp3", Suffix)}

InitArchive ==
    /\ args = [audio_only |-> FALSE, skip_processing |-> FALSE,
               keep_original |-> FALSE, max_workers |-> 1,
               filename_suffix |-> sanitize_filename(RawSuffix),
               url_or_identifier |-> "https://y/c"]
    /\ archive_file \in StartupFiles
    /\ processed_archive = LoadArchive(archive_file)
    /\ startup_file = archive_file
    /\ event = NoEvent
    /\ files_to_process = << >>
    /\ tqdm_progress_bars = << >>
    /\ fs = [p \in AllPaths |-> "absent"]
    /\ mainpc = "archive_store"
    /\ fetch_error = FALSE
    /\ futures = << >>
    /\ work_queue = << >>
    /\ collected = {}
    /\ pbar_n = 0
    /\ audio_i = 1

\* _save_to_processed_archive(filename), lines 106-109, returning normally.
StoreAppend(filename) ==
    /\ mainpc = "archive_store"
    /\ Len(archive_file) < MaxAppends
    /\ archive_file' = AppendLine(archive_file, filename)
    /\ processed_archive' = processed_archive \cup {filename}
    /\ UNCHANGED <<args, files_to_process, tqdm_progress_bars, startup_file,
                   event, fs, mainpc, fetch_error, futures, work_queue,
                   collected, pbar_n, audio_i>>

\* A new YoutubeDownloader over the same file: _load_processed_archive.
FreshLoad ==
    /\ mainpc = "archive_store"
    /\ processed_archive' = LoadArchive(archive_file)
    /\ startup_file' = archive_file
    /\ UNCHANGED <<args, files_to_process, tqdm_progress_bars, archive_file,
                   event, fs, mainpc, fetch_error, futures, work_queue,
                   collected, pbar_n, audio_i>>

NextArchive ==
    \/ \E k \in StoreKeys : StoreAppend(k)
    \/ FreshLoad

SpecArchive == InitArchive /\ [][NextArchive]_vars

---------------------------------------------------------------------------
\* Properties.

\* The lines appended to the archive file since the run began.
NewLines == SubSeq(archive_file, Len(startup_file) + 1, Len(archive_file))

\* How often a key was appended since the run began.
Appends(k) == Cardinality({j \in DOMAIN NewLines : NewLines[j] = k})

Out(i) == OutputFile(futures[i].filename, args.filename_suffix)

CarriesSuffix(path) == EndsWith(Splitext(path)[1], args.filename_suffix)

\* C1: in video mode every enqueued task gets exactly one future, each
\* future is claimed by a worker exactly once and yields exactly one result,
\* and when the run is over the aggregate counter has advanced once per
\* enqueued task, for every worker count and every interleaving.
C1_ExactlyOnce ==
    ~args.audio_only =>
      /\ Len(futures) <= Len(files_to_process)
      /\ \A i \in DOMAIN futures :
           /\ futures[i].filename = files_to_process[i]
           /\ futures[i].claims = IF futures[i].pc = "queued" THEN 0 ELSE 1
           /\ (futures[i].pc = "done") = (futures[i].result # "pending")
           /\ (futures[i].pc = "queued") =
                 (Cardinality({j \in DOMAIN work_queue : work_queue[j] = i}) = 1)
      /\ collected \subseteq {i \in DOMAIN futures : futures[i].pc = "done"}
      /\ pbar_n = Cardinality(collected)
      /\ mainpc = "done" =>
           /\ collected = 1..Len(files_to_process)
           /\ pbar_n = Len(files_to_process)

\* A finished video run with more tasks than workers, all counted.
C1_Witness ==
    /\ ~args.audio_only
    /\ mainpc = "done"
    /\ Len(files_to_process) > args.max_workers
    /\ pbar_n = Len(files_to_process)
    /\ \E i \in DOMAIN futures : futures[i].result = "processed"

\* C2: a task that ends in failure has not deleted its source file; a task
\* deletes its source only when keep-original is not set and its result is
\* success.
C2_FailureKeepsSource ==
    \A i \in DOMAIN futures :
        futures[i].removed =>
          /\ ~args.keep_original
          /\ futures[i].pc = "done" => futures[i].result = "processed"

\* C3: in video mode a task writes to the archive only after the transcoder
\* exited with status zero and the output was seen to exist and be
\* non-empty; the lines appended are exactly the derived output paths
\* <base>_<suffix>.mp4 of those tasks, and the in-memory set grows by the
\* output paths of the tasks reported as processed; a task whose transcoder
\* exited non-zero or whose output was missing or empty never writes.
C3_ArchiveOnlyOnSuccess ==
    ~args.audio_only =>
      /\ \A i \in DOMAIN futures :
           /\ futures[i].wrote = "ok" =>
                futures[i].rc = "0" /\ futures[i].seen = "full"
           /\ (futures[i].rc \notin {"none", "0"}
                 \/ futures[i].seen \in {"absent", "empty"}) =>
                futures[i].wrote = "no" /\ futures[i].pc = "done"
      /\ SubSeq(archive_file, 1, Len(startup_file)) = startup_file
      /\ Len(NewLines) =
            Cardinality({i \in DOMAIN futures : futures[i].wrote = "ok"})
      /\ \A j \in DOMAIN NewLines :
           /\ \E i \in DOMAIN futures :
                futures[i].wrote = "ok" /\ NewLines[j] = Out(i)
           /\ EndsWith(NewLines[j], "_" \o args.filename_suffix \o ".mp4")
      /\ processed_archive =
            StartupArchive \cup
              {Out(i) : i \in {k \in DOMAIN futures :
                                  futures[k].result = "processed"}}

\* One task was archived and another, whose transcoder failed or whose
\* output was empty or missing, was not.
C3_Witness ==
    /\ ~args.audio_only
    /\ mainpc = "done"
    /\ \E i, j \in DOMAIN futures :
         /\ futures[i].result = "processed"
         /\ Out(i) \in processed_archive
         /\ futures[j].result \in {"ffmpeg_error", "failed"}

\* The completion event being handled enqueues its path.
Enqueues(d) ==
    /\ d.filename # ""
    /\ ~args.skip_processing
    /\ d.filename \notin processed_archive

\* C4: the hook, handling a 'finished' event, appends the destination path
\* to the queue if and only if the path is present, skip-processing is off
\* and the path is not in the archive; otherwise the queue is unchanged;
\* the archive (set and file) is never changed by it.
C4_EnqueueIff ==
    [][(event.status = "finished" /\ event'.status = "none") =>
          /\ files_to_process' =
                IF Enqueues(event)
                THEN Append(files_to_process, event.filename)
                ELSE files_to_process
          /\ processed_archive' = processed_archive
          /\ archive_file' = archive_file]_vars

\* One completion was enqueued and another, whose path is in the archive,
\* was handled and not enqueued.
C4_Witness ==
    /\ mainpc = "fetch"
    /\ event = NoEvent
    /\ ~args.skip_processing
    /\ Len(files_to_process) = 1
    /\ \E p \in SrcPaths :
         /\ p \in processed_archive
         /\ fs[p] = "full"
         /\ files_to_process[1] # p

\* C5: a source file whose processing was recorded by the pipeline in an
\* earlier run (its derived output path is in the archive loaded at
\* startup) is never enqueued again and never handed to the transcoder
\* again.
C5_NoReprocessing ==
    ~args.audio_only =>
      \A p \in SrcPaths :
        OutputFile(p, args.filename_suffix) \in StartupArchive =>
          /\ \A j \in DOMAIN files_to_process : files_to_process[j] # p
          /\ \A i \in DOMAIN futures :
               futures[i].filename = p => futures[i].rc = "none"

\* C6: in video mode a task whose base name already ends with the suffix is
\* never run through the transcoder, never deleted, writes nothing to the
\* archive, ends with the skipped result, and is counted in the total.
C6_SuffixGuard ==
    ~args.audio_only =>
      \A i \in DOMAIN futures :
        CarriesSuffix(futures[i].filename) =>
          /\ futures[i].pc \in {"queued", "done"}
          /\ futures[i].rc = "none"
          /\ ~futures[i].removed
          /\ futures[i].wrote = "no"
          /\ fs[futures[i].filename] # "absent"
          /\ futures[i].pc = "done" => futures[i].result = "skipped"
          /\ mainpc = "done" =>
               i \in collected /\ pbar_n = Len(files_to_process)

\* A finished run in which a task was skipped by the guard and counted.
C6_Witness ==
    /\ ~args.audio_only
    /\ mainpc = "done"
    /\ \E i \in DOMAIN futures :
         /\ CarriesSuffix(futures[i].filename)
         /\ futures[i].result = "skipped"
         /\ i \in collected
    /\ pbar_n = Len(files_to_process)

\* The calls of _save_to_processed_archive that have written their line and
\* not yet updated the set.
InSave == {i \in DOMAIN futures : futures[i].pc = "add"}

\* C7: concurrent calls of the archive append are serialized (no call
\* writes or updates between the write and the update of another call), and
\* when all workers are done every key whose append returned is a whole
\* line of the file and a member of the set.
C7_AppendSerialized ==
    /\ Cardinality(InSave) <= 1
    /\ (mainpc = "done" /\ ~args.audio_only) =>
         \A i \in DOMAIN futures :
           futures[i].result = "processed" =>
             /\ \E j \in DOMAIN NewLines : NewLines[j] = Out(i)
             /\ Out(i) \in processed_archive

\* C8: every key added to the in-memory set during the run was written to
\* the file before; a task whose archive write failed ends as a failure,
\* and its key is not added by it; the pool goes on and the run ends with a
\* result for every task.
C8_WriteFailure ==
    /\ \A k \in processed_archive \ StartupArchive :
         \E j \in DOMAIN NewLines : NewLines[j] = k
    /\ ~args.audio_only =>
         /\ \A i \in DOMAIN futures :
              futures[i].wrote = "failed" =>
                /\ futures[i].pc = "done"
                /\ futures[i].result = "unexpected"
         /\ processed_archive \ StartupArchive \subseteq
               {Out(i) : i \in {k \in DOMAIN futures : futures[k].wrote = "ok"}}
         /\ mainpc = "done" =>
              /\ Len(futures) = Len(files_to_process)
              /\ \A i \in DOMAIN futures :
                   futures[i].pc = "done" /\ futures[i].result # "pending"

\* With one worker, a task's archive write failed and a later task was
\* still processed and archived.
C8_Witness ==
    /\ ~args.audio_only
    /\ args.max_workers = 1
    /\ mainpc = "done"
    /\ \E i, j \in DOMAIN futures :
         /\ i < j
         /\ futures[i].wrote = "failed"
         /\ Out(i) \notin processed_archive
         /\ futures[j].result = "processed"

\* C9: a key appended twice is in the in-memory set, and a fresh load of
\* the file yields a set that contains the key and no key that was neither
\* appended nor loaded before.
C9_RoundTrip ==
    /\ \A k \in StoreKeys :
         Appends(k) >= 2 =>
           /\ k \in processed_archive
           /\ k \in LoadArchive(archive_file)
    /\ LoadArchive(archive_file) \subseteq
          StartupArchive \cup {NewLines[j] : j \in DOMAIN NewLines}

\* C10: when the fetch call raised, the run does not exit: it goes on to
\* the processing stage, every task enqueued before the error gets its
\* future (video) or its turn of the loop (audio), and the run ends only
\* when each of them was handled.
C10_FetchErrorContinues ==
    fetch_error =>
      /\ mainpc \in {"process_videos", "submit", "as_completed",
                     "process_audio", "done"}
      /\ args.skip_processing => files_to_process = << >>
      /\ (~args.audio_only /\ mainpc \in {"as_completed", "done"}) =>
           /\ Len(futures) = Len(files_to_process)
           /\ \A i \in DOMAIN futures :
                futures[i].filename = files_to_process[i]
      /\ (~args.audio_only /\ mainpc = "done") =>
           \A i \in DOMAIN futures :
             futures[i].claims = 1 /\ futures[i].pc = "done"
      /\ (args.audio_only /\ mainpc = "done") =>
           audio_i = Len(files_to_process) + 1

\* The fetch call raised after tasks were enqueued, and the run ended with
\* all of them handled by the workers.
C10_Witness ==
    /\ fetch_error
    /\ ~args.audio_only
    /\ mainpc = "done"
    /\ Len(files_to_process) >= 2
    /\ \A i \in DOMAIN files_to_process :
         /\ i \in DOMAIN futures
         /\ futures[i].pc = "done"
         /\ futures[i].rc # "none"

---------------------------------------------------------------------------
\* The run under the scheduling the code relies on: every thread that can
\* take a step takes one, and the fetch call comes back (it returns or
\* raises) instead of delivering events for ever.
LiveSpec ==
    /\ Init
    /\ [][Next]_vars
    /\ WF_vars(Next)
    /\ SF_vars(FetchReturn \/ FetchRaise)

\* The identifier of the run resolves to URLs.
Resolvable == _get_valid_url(args.url_or_identifier) # Exit

\* Every queued task was handled: in video mode its future is done and was
\* collected, in audio mode the loop went past it.
AllHandled ==
    \/ args.skip_processing
    \/ /\ args.audio_only
       /\ audio_i = Len(files_to_process) + 1
    \/ /\ ~args.audio_only
       /\ Len(futures) = Len(files_to_process)
       /\ \A i \in DOMAIN futures :
            futures[i].pc = "done" /\ i \in collected

\* C11: a run with a resolvable identifier eventually reaches the final
\* "completed" line, whatever the fetch, the transcoder, the renames and
\* the archive writes did, in audio and in video mode; and it reaches it
\* only after every queued task was handled, so that no failure of one task
\* kept a sibling from being processed.
C11_RunCompletes ==
    /\ Resolvable => <>(mainpc = "done")
    /\ [](mainpc = "done" => AllHandled)

\* A finished video run in which one task failed with an archive write error
\* and another with a transcoder error.
C11_Witness ==
    /\ mainpc = "done"
    /\ ~args.audio_only
    /\ \E i, j \in DOMAIN futures :
         /\ futures[i].wrote = "failed"
         /\ futures[j].result = "ffmpeg_error"

---------------------------------------------------------------------------
\* The resolver over many identifiers: a run up to the end of
\* _get_valid_url.

\* Identifiers built from a prefix, a body, a marker and a tail.
ResolverIds ==
    {p \o m \o k \o t :
        p \in {"", "@", "UC", "https://", "http://", "x"},
        m \in {"", "ab"},
        k \in {"", "playlist?list=", "watch?v="},
        t \in {"", "1"}}

InitResolver ==
    /\ \E id \in ResolverIds :
          args = [audio_only |-> FALSE, skip_processing |-> FALSE,
                  keep_original |-> FALSE, max_workers |-> 1,
                  filename_suffix |-> sanitize_filename(RawSuffix),
                  url_or_identifier |-> id]
    /\ archive_file = << >>
    /\ processed_archive = LoadArchive(archive_file)
    /\ startup_file = archive_file
    /\ event = NoEvent
    /\ files_to_process = << >>
    /\ tqdm_progress_bars = << >>
    /\ fs = [p \in AllPaths |-> "absent"]
    /\ mainpc = "download_content"
    /\ fetch_error = FALSE
    /\ futures = << >>
    /\ work_queue = << >>
    /\ collected = {}
    /\ pbar_n = 0
    /\ audio_i = 1

NextResolver == DownloadContent

SpecResolver == InitResolver /\ [][NextResolver]_vars

\* The identifier holds a playlist or single-video marker.
HasMarker(identifier) ==
    Contains(identifier, "playlist?list=") \/ Contains(identifier, "watch?v=")

\* The two URLs of a listing pair: the same address, then "/videos" and
\* "/shorts".
ListingPair(urls) ==
    /\ urls # Exit
    /\ Len(urls) = 2
    /\ \E n \in 0..Len(urls[1]) :
         /\ urls[1] = SubSeq(urls[1], 1, n) \o "/videos"
         /\ urls[2] = SubSeq(urls[1], 1, n) \o "/shorts"

\* The resolver's answer for a handle: two URLs that hold the handle and
\* differ only in the last segment; the run goes on to the fetch.
HandleAnswer(identifier) ==
    LET urls == _get_valid_url(identifier)
    IN  /\ ListingPair(urls)
        /\ Contains(urls[1], identifier)
        /\ Contains(urls[2], identifier)
        /\ mainpc # "download_content" => mainpc = "fetch"

\* C12, as stated: every identifier that starts with "@" resolves to two
\* URLs that hold the handle and differ only in "videos" and "shorts".
C12_EveryHandle ==
    StartsWith(args.url_or_identifier, "@") =>
        HandleAnswer(args.url_or_identifier)

\* C12, amended: every identifier that starts with "@" and holds neither
\* marker "playlist?list=" nor "watch?v=" resolves to two URLs that hold the
\* handle and differ only in "videos" and "shorts".
C12_HandleWithoutMarker ==
    (StartsWith(args.url_or_identifier, "@")
       /\ ~HasMarker(args.url_or_identifier)) =>
        HandleAnswer(args.url_or_identifier)

\* A handle without a marker was resolved.
C12_Witness ==
    /\ mainpc = "fetch"
    /\ StartsWith(args.url_or_identifier, "@")
    /\ ~HasMarker(args.url_or_identifier)
    /\ Len(args.url_or_identifier) > 1

\* The identifier begins with a URL scheme.
HasUrlScheme(identifier) ==
    \E scheme \in {"https", "http", "ftp"} :
        StartsWith(identifier, scheme \o "://")

\* The ordered rules of the resolver's contract, first match wins.
RuleList(identifier) ==
    IF HasMarker(identifier) THEN <<identifier>>
    ELSE IF StartsWith(identifier, "@")
    THEN <<"https://www.youtube.com/" \o identifier \o "/videos",
           "https://www.youtube.com/" \o identifier \o "/shorts">>
    ELSE IF StartsWith(identifier, "UC")
    THEN <<"https://www.youtube.com/channel/" \o identifier \o "/videos",
           "https://www.youtube.com/channel/" \o identifier \o "/shorts">>
    ELSE IF HasUrlScheme(identifier) THEN <<identifier>>
    ELSE Exit

\* C13: the resolver's answer is that of the ordered rule list for every
\* identifier; every identifier that begins with a URL scheme is returned
\* unchanged, and the run exits only for identifiers that are no URL and
\* match none of the first three rules.
C13_RuleList ==
    /\ _get_valid_url(args.url_or_identifier) = RuleList(args.url_or_identifier)
    /\ HasUrlScheme(args.url_or_identifier) =>
          _get_valid_url(args.url_or_identifier) = <<args.url_or_identifier>>
    /\ mainpc = "exited" =>
          /\ ~HasUrlScheme(args.url_or_identifier)
          /\ ~HasMarker(args.url_or_identifier)
          /\ ~StartsWith(args.url_or_identifier, "@")
          /\ ~StartsWith(args.url_or_identifier, "UC")

\* C14: a run whose identifier does not resolve never leaves
\* download_content except by exiting: no event is delivered, nothing is
\* enqueued, no future exists, no file and no archive entry changes, and the
\* final line is never reached.
C14_FatalInput ==
    ~Resolvable =>
      /\ mainpc \in {"download_content", "exited"}
      /\ event = NoEvent
      /\ files_to_process = << >>
      /\ futures = << >>
      /\ work_queue = << >>
      /\ pbar_n = 0
      /\ audio_i = 1
      /\ ~fetch_error
      /\ archive_file = startup_file
      /\ processed_archive = StartupArchive
      /\ \A p \in AllPaths : fs[p] = "absent"

\* A run that exited on its identifier.
C14_Witness ==
    /\ ~Resolvable
    /\ mainpc = "exited"

---------------------------------------------------------------------------
\* Audio mode.

\* A step that handles one task of the audio loop.
AudioTurn == audio_i' = audio_i + 1

\* The path with "_<suffix>" inserted before the extension of the task at hand.
AudioNewPath ==
    LET filepath == files_to_process[audio_i]
    IN  Splitext(filepath)[1] \o "_" \o args.filename_suffix
            \o Splitext(filepath)[2]

\* The step renamed the task at hand to AudioNewPath.
AudioRenamed ==
    /\ fs[files_to_process[audio_i]] # "absent"
    /\ fs' = [fs EXCEPT ![AudioNewPath] = fs[files_to_process[audio_i]],
                        ![files_to_process[audio_i]] = "absent"]

\* The step appended AudioNewPath to the archive, set and file.
AudioArchived ==
    /\ processed_archive' = processed_archive \cup {AudioNewPath}
    /\ archive_file' = Append(archive_file, AudioNewPath)

\* The transcoder is never invoked in audio mode, and a finished audio run
\* has handled every task.
AudioNoTranscoder ==
    args.audio_only =>
        /\ futures = << >>
        /\ work_queue = << >>
        /\ (mainpc = "done" /\ ~args.skip_processing) =>
               audio_i = Len(files_to_process) + 1

\* One task per step, in queue order, whatever happened to the tasks before;
\* a task carrying the suffix is skipped; a failed rename adds nothing.
AudioTurnBasics ==
    /\ args.audio_only
    /\ mainpc = "process_audio" /\ mainpc' = "process_audio"
    /\ audio_i \in 1..Len(files_to_process)
    /\ files_to_process' = files_to_process
    /\ CarriesSuffix(files_to_process[audio_i]) =>
          UNCHANGED <<fs, processed_archive, archive_file>>
    /\ ~CarriesSuffix(files_to_process[audio_i]) =>
          \/ AudioRenamed
          \/ UNCHANGED <<fs, processed_archive, archive_file>>

\* C15, as stated: in audio mode the transcoder is never invoked, the tasks
\* are handled one after the other, a task carrying the suffix is skipped,
\* a task not carrying it is renamed and, once renamed, its new path is
\* appended to the archive; a failed rename adds nothing and the loop goes on.
C15_RenamedThenArchived ==
    [][AudioTurn => (AudioTurnBasics /\ (AudioRenamed => AudioArchived))]_vars

\* C15, amended: as above, but a renamed task's new path is appended to the
\* archive unless the archive write itself fails, in which case the archive
\* (set and file) is left as it was and the loop goes on.
C15_AudioMode ==
    /\ []AudioNoTranscoder
    /\ [][AudioTurn =>
            /\ AudioTurnBasics
            /\ AudioRenamed =>
                 \/ AudioArchived
                 \/ UNCHANGED <<processed_archive, archive_file>>]_vars

\* A finished audio run of two tasks: the first rename failed and left its
\* file and the archive alone, the second task was renamed and archived.
C15_Witness ==
    /\ args.audio_only
    /\ mainpc = "done"
    /\ Len(files_to_process) = 2
    /\ ~CarriesSuffix(files_to_process[1])
    /\ ~CarriesSuffix(files_to_process[2])
    /\ files_to_process[1] # files_to_process[2]
    /\ fs[files_to_process[1]] = "full"
    /\ fs[files_to_process[2]] = "absent"
    /\ fs[NewFilepath(files_to_process[2], args.filename_suffix)] = "full"
    /\ processed_archive =
          StartupArchive
             \cup {NewFilepath(files_to_process[2], args.filename_suffix)}

---------------------------------------------------------------------------
\* The progress indicators of the fetch stage: a run with --skip-processing
\* whose engine reports progress and completion of two items.

MaxBytes == 2

\* The items of the fetch: the engine's ID and the destination path.
Items == {[id |-> "x", filename |-> "a.mp4"],
          [id |-> "y", filename |-> "b.mkv"]}

\* The 'downloading' events of an item: info_dict.id and filename may each
\* be missing (""), downloaded_bytes is any count.
DownloadingEvents ==
    UNION {[status : {"downloading"}, id : {it.id, ""},
            filename : {it.filename, ""},
            downloaded_bytes : 0..MaxBytes] : it \in Items}

\* The 'finished' events of an item: the destination path, with or without
\* the ID.
ItemFinishedEvents ==
    UNION {[status : {"finished"}, id : {it.id, ""},
            filename : {it.filename}] : it \in Items}

\* The item an event belongs to.
ItemOf(d) ==
    CHOOSE it \in Items : d.id = it.id \/ d.filename = it.filename

InitProgress ==
    /\ args = [audio_only |-> FALSE, skip_processing |-> TRUE,
               keep_original |-> FALSE, max_workers |-> 1,
               filename_suffix |-> sanitize_filename(RawSuffix),
               url_or_identifier |-> "https://y/c"]
    /\ archive_file = << >>
    /\ processed_archive = LoadArchive(archive_file)
    /\ startup_file = archive_file
    /\ event = NoEvent
    /\ files_to_process = << >>
    /\ tqdm_progress_bars = << >>
    /\ fs = [p \in AllPaths |-> "absent"]
    /\ mainpc = "download_content"
    /\ fetch_error = FALSE
    /\ futures = << >>
    /\ work_queue = << >>
    /\ collected = {}
    /\ pbar_n = 0
    /\ audio_i = 1

\* The fetch engine reports progress of an item it has not finished, and
\* calls the progress hook with the event.
EngineProgress(d) ==
    /\ mainpc = "fetch"
    /\ event = NoEvent
    /\ d.id # "" \/ d.filename # ""
    /\ fs[ItemOf(d).filename] # "full"
    /\ event' = d
    /\ UNCHANGED <<args, files_to_process, tqdm_progress_bars,
                   processed_archive, archive_file, startup_file, fs, mainpc,
                   fetch_error, futures, work_queue, collected, pbar_n,
                   audio_i>>

\* The registry after a 'downloading' event (lines 138-147): the bar is
\* created at 0 when the key is new, then pbar.update(downloaded - pbar.n).
BarsAfterDownloading(bars, file_id, downloaded) ==
    LET n == IF file_id \in DOMAIN bars THEN bars[file_id] ELSE 0
    IN  [k \in DOMAIN bars \cup {file_id} |->
            IF k = file_id THEN n + (downloaded - n) ELSE bars[k]]

\* _progress_hook, status 'downloading' (lines 134-147).
HookDownloading ==
    /\ event.status = "downloading"
    /\ tqdm_progress_bars' =
          IF FileId(event) = "" THEN tqdm_progress_bars
          ELSE BarsAfterDownloading(tqdm_progress_bars, FileId(event),
                                    event.downloaded_bytes)
    /\ event' = NoEvent
    /\ UNCHANGED <<args, files_to_process, processed_archive, archive_file,
                   startup_file, fs, mainpc, fetch_error, futures, work_queue,
                   collected, pbar_n, audio_i>>

NextProgress ==
    \/ DownloadContent
    \/ \E d \in DownloadingEvents : EngineProgress(d)
    \/ HookDownloading
    \/ \E d \in ItemFinishedEvents : EngineFinishes(d)
    \/ HookFinished
    \/ FetchReturn
    \/ FetchRaise

SpecProgress == InitProgress /\ [][NextProgress]_vars

\* C16: whatever progress events arrive, in whatever order and with
\* whatever byte counts, the displayed progress of an open indicator never
\* decreases from one step to the next.
C16_NeverRegresses ==
    [][\A k \in DOMAIN tqdm_progress_bars \cap DOMAIN tqdm_progress_bars' :
          tqdm_progress_bars'[k] >= tqdm_progress_bars[k]]_vars

\* The registry keys that belong to an item.
LiveKeys(it) ==
    DOMAIN tqdm_progress_bars \cap {it.id, Basename(it.filename)}

\* C17: each item has at most one live indicator; once an item's completion
\* event has been handled none of its indicators is left in the registry;
\* after the fetch stage has ended the registry is empty.
C17_IndicatorLifecycle ==
    /\ \A it \in Items : Cardinality(LiveKeys(it)) <= 1
    /\ \A it \in Items :
          (fs[it.filename] = "full" /\ event = NoEvent) => LiveKeys(it) = {}
    /\ mainpc \notin {"download_content", "fetch"} =>
          DOMAIN tqdm_progress_bars = {}

---------------------------------------------------------------------------
\* Worker pool.

\* The futures whose transcoder subprocess is to run or running.
Transcoding == {i \in DOMAIN futures : futures[i].pc = "ffmpeg"}

\* C18: in video mode the tasks being processed at one time, and so the
\* transcoder subprocesses, are never more than max_workers, and a step
\* starts a task only when fewer than max_workers tasks are being processed.
C18_WorkerBound ==
    /\ [](/\ Cardinality(Running) <= args.max_workers
          /\ Transcoding \subseteq Running
          /\ args.audio_only => Running = {})
    /\ [][Running' \ Running # {} =>
            /\ Cardinality(Running) < args.max_workers
            /\ Cardinality(Running' \ Running) = 1]_vars

\* The pool is full while a task waits in the work queue.
C18_Witness ==
    /\ ~args.audio_only
    /\ Cardinality(Transcoding) = args.max_workers
    /\ work_queue # << >>

---------------------------------------------------------------------------
\* Task ownership.

\* C19: whatever completion events the fetch delivers, the task queue holds
\* each source path at most once, and no two futures are given the same
\* source path.
C19_QueueHoldsOnce ==
    /\ \A i, j \in DOMAIN files_to_process :
          files_to_process[i] = files_to_process[j] => i = j
    /\ \A i, j \in DOMAIN futures :
          futures[i].filename = futures[j].filename => i = j

---------------------------------------------------------------------------
\* A video run whose fetch delivers sources that differ only in extension.

CollideEvents == [status : {"finished"}, id : {"x"}, filename : CollidePaths]

InitCollide ==
    /\ \E ko \in BOOLEAN, mw \in 1..MaxWorkers :
          args = [audio_only |-> FALSE, skip_processing |-> FALSE,
                  keep_original |-> ko, max_workers |-> mw,
                  filename_suffix |-> sanitize_filename(RawSuffix),
                  url_or_identifier |-> "https://y/c"]
    /\ archive_file = << >>
    /\ processed_archive = LoadArchive(archive_file)
    /\ startup_file = archive_file
    /\ event = NoEvent
    /\ files_to_process = << >>
    /\ tqdm_progress_bars = << >>
    /\ fs = [p \in AllPaths |-> "absent"]
    /\ mainpc = "download_content"
    /\ fetch_error = FALSE
    /\ futures = << >>
    /\ work_queue = << >>
    /\ collected = {}
    /\ pbar_n = 0
    /\ audio_i = 1

NextCollide ==
    \/ DownloadContent
    \/ \E d \in CollideEvents : EngineFinishes(d)
    \/ HookFinished
    \/ FetchReturn
    \/ FetchRaise
    \/ ProcessVideos
    \/ Submit
    \/ Claim
    \/ \E i \in 1..MaxTasks : RunFfmpeg(i)
    \/ \E i \in 1..MaxTasks : CheckOutput(i)
    \/ \E i \in 1..MaxTasks : RemoveSource(i)
    \/ \E i \in 1..MaxTasks : SaveWrite(i)
    \/ \E i \in 1..MaxTasks : SaveAdd(i)
    \/ \E i \in 1..MaxTasks : Collect(i)
    \/ ProcessVideosReturn

SpecCollide == InitCollide /\ [][NextCollide]_vars

\* C20: two tasks with distinct source paths that are being processed at the
\* same time have distinct output files.
C20_DistinctOutputs ==
    \A i, j \in Running :
        futures[i].filename # futures[j].filename => Out(i) # Out(j)

====
